---- MODULE Spec2Model ----
(***************************************************************************)
(* Model of rsttools.Parser (src/src/rsttools/Parser.py): one run of       *)
(* Parser.create_slides, from construction to the written HTML document.   *)
(*                                                                         *)
(* Strings are sequences of tokens (a token is a run of characters), so    *)
(* that concatenation is \o, a path is its components separated by "/"      *)
(* tokens, and a field name such as "css_files-list-add" is                *)
(* <<"css_files", "-list", "-add">>.                                       *)
(***************************************************************************)
EXTENDS Integers, Sequences, FiniteSets, TLC

VARIABLES pc, error, error_key, traceback, getcwd, warnings, resources, settings, doctree, parts,
          dirs, files, created, reads, env, doc_settings, pre_theme,
          resource_dir_abspath, resource_dir_relpath,
          is_pygments, meta_info, titleslide, footer_html,
          header, body, footer, output

vars == <<pc, error, error_key, traceback, getcwd, warnings, resources, settings, doctree, parts,
          dirs, files, created, reads, env, doc_settings, pre_theme,
          resource_dir_abspath, resource_dir_relpath,
          is_pygments, meta_info, titleslide, footer_html,
          header, body, footer, output>>

----------------------------------------------------------------------------
(* Bounds of the model *)

MaxFields == 2
MaxItems == 2
MaxThemeFields == 2
MaxLines == 2

----------------------------------------------------------------------------
(* Strings, settings values and dictionaries *)

K(s) == <<s>>

RECURSIVE Concat(_)
Concat(ss) == IF Len(ss) = 0 THEN <<>> ELSE Head(ss) \o Concat(Tail(ss))

EndsWith(s, suffix) ==
    /\ Len(s) >= Len(suffix)
    /\ SubSeq(s, Len(s) - Len(suffix) + 1, Len(s)) = suffix

StripSuffix(s, suffix) == SubSeq(s, 1, Len(s) - Len(suffix))

Contains(s, sub) ==
    \E i \in 0..(Len(s) - Len(sub)) : SubSeq(s, i + 1, i + Len(sub)) = sub

LowerTok(t) ==
    CASE t = "Theme" -> "theme"
      [] t = "Transition" -> "transition"
      [] OTHER -> t

Lower(s) == [i \in DOMAIN s |-> LowerTok(s[i])]

Str(t) == [kind |-> "str", str |-> t, list |-> <<>>, flag |-> FALSE]
List(l) == [kind |-> "list", str |-> <<>>, list |-> l, flag |-> FALSE]
Bool(b) == [kind |-> "bool", str |-> <<>>, list |-> <<>>, flag |-> b]

Truthy(v) ==
    CASE v.kind = "bool" -> v.flag
      [] v.kind = "str" -> Len(v.str) > 0
      [] OTHER -> Len(v.list) > 0

Has(d, k) == k \in DOMAIN d
Put(d, k, v) == [x \in (DOMAIN d) \cup {k} |-> IF x = k THEN v ELSE d[x]]
Del(d, k) == [x \in (DOMAIN d) \ {k} |-> d[x]]

Ok(d) == [d |-> d, err |-> ""]
Raise(d, e) == [d |-> d, err |-> e]

----------------------------------------------------------------------------
(* The document tree, as the DOM that doctree.asdom() returns *)

TextNode(t) == [tagName |-> "#text", data |-> t, classes |-> <<>>, childNodes |-> <<>>]
Elem(tag, kids) == [tagName |-> tag, data |-> <<>>, classes |-> <<>>, childNodes |-> kids]
Topic(cls, kids) == [tagName |-> "topic", data |-> <<>>, classes |-> cls, childNodes |-> kids]

Para(t) == Elem("paragraph", <<TextNode(t)>>)
Bullets(items) ==
    Elem("bullet_list", [i \in DOMAIN items |-> Elem("list_item", <<Para(items[i])>>)])
Field(name, kids) ==
    Elem("field", <<Elem("field_name", <<TextNode(name)>>), Elem("field_body", kids)>>)
Document(fields, topics) ==
    Elem("document", (IF Len(fields) = 0 THEN <<>> ELSE <<Elem("docinfo", fields)>>) \o topics)

RECURSIVE Descendants(_)
Descendants(nodelist) ==
    IF Len(nodelist) = 0 THEN <<>>
    ELSE <<Head(nodelist)>> \o Descendants(Head(nodelist).childNodes)
                            \o Descendants(Tail(nodelist))

getElementsByTagName(node, tag) ==
    SelectSeq(Descendants(node.childNodes), LAMBDA n : n.tagName = tag)

RECURSIVE getText(_)
getText(nodelist) ==
    IF Len(nodelist) = 0 THEN <<>>
    ELSE LET node == Head(nodelist)
         IN (IF node.tagName = "#text" THEN node.data ELSE getText(node.childNodes))
            \o getText(Tail(nodelist))

----------------------------------------------------------------------------
(* Parser._parse_docinfo *)

ParseAuthors(field, d) ==
    LET authors == getElementsByTagName(field, "author")
    IN IF \E i \in DOMAIN authors : Len(authors[i].childNodes) = 0
       THEN Raise(d, "AttributeError")
       ELSE Ok(Put(d, K("authors"),
                   List([i \in DOMAIN authors |-> authors[i].childNodes[1].data])))

ParseListField(field_name_str, field_body, d) ==
    LET field_name == StripSuffix(field_name_str, <<"-list">>)
    IN IF Len(field_body.childNodes) = 0 THEN Raise(d, "AttributeError")
       ELSE IF field_body.childNodes[1].tagName = "bullet_list"
       THEN Ok(Put(d, field_name,
                   List([i \in DOMAIN field_body.childNodes |->
                            getText(field_body.childNodes[i].childNodes)])))
       ELSE Ok(Put(d, field_name, List(<<getText(field_body.childNodes)>>)))

ParseListAddField(field_name_str, field_body, d) ==
    LET field_name == StripSuffix(field_name_str, <<"-list", "-add">>)
        d1 == IF Has(d, field_name) THEN d ELSE Put(d, field_name, List(<<>>))
    IN IF Len(field_body.childNodes) = 0 THEN Raise(d1, "AttributeError")
       ELSE IF field_body.childNodes[1].tagName = "bullet_list"
       THEN Raise(d1, "NameError")
       ELSE IF d1[field_name].kind # "list" THEN Raise(d1, "TypeError")
       ELSE Ok(Put(d1, field_name,
                   List(d1[field_name].list \o <<getText(field_body.childNodes)>>)))

ParseNamedField(field, d) ==
    LET names == getElementsByTagName(field, "field_name")
        bodies == getElementsByTagName(field, "field_body")
    IN IF Len(names) = 0 THEN Raise(d, "IndexError")
       ELSE IF Len(names[1].childNodes) = 0 THEN Raise(d, "AttributeError")
       ELSE IF Len(bodies) = 0 THEN Raise(d, "IndexError")
       ELSE LET field_name_str == Lower(names[1].childNodes[1].data)
                field_body == bodies[1]
            IN IF EndsWith(field_name_str, <<"-list">>)
               THEN ParseListField(field_name_str, field_body, d)
               ELSE IF EndsWith(field_name_str, <<"-list", "-add">>)
               THEN ParseListAddField(field_name_str, field_body, d)
               ELSE Ok(Put(d, field_name_str, Str(getText(field_body.childNodes))))

ParseDocinfoChild(field, d) ==
    IF field.tagName = "authors" THEN ParseAuthors(field, d)
    ELSE IF field.tagName = "field" THEN ParseNamedField(field, d)
    ELSE Ok(Put(d, K(field.tagName), Str(getText(field.childNodes))))

RECURSIVE ParseFields(_, _)
ParseFields(fields, d) ==
    IF Len(fields) = 0 THEN Ok(d)
    ELSE LET r == ParseDocinfoChild(Head(fields), d)
         IN IF r.err # "" THEN r ELSE ParseFields(Tail(fields), r.d)

RECURSIVE ParseTopics(_, _)
ParseTopics(topics, d) ==
    IF Len(topics) = 0 THEN d
    ELSE LET classes == Lower(Head(topics).classes)
         IN ParseTopics(Tail(topics),
                        IF classes \in {K("abstract"), K("dedication")}
                        THEN Put(d, classes, Str(getText(Head(topics).childNodes)))
                        ELSE d)

_parse_docinfo(tree, d) ==
    LET docinfos == getElementsByTagName(tree, "docinfo")
        fields == Concat([i \in DOMAIN docinfos |-> docinfos[i].childNodes])
        r == ParseFields(fields, d)
    IN IF r.err # "" THEN r
       ELSE Ok(ParseTopics(getElementsByTagName(tree, "topic"), r.d))

----------------------------------------------------------------------------
(* Paths and the file system *)

None == <<"None">>

cwd == <<"/", "work">>
curr_dir == <<"/", "out">>
output_name == <<"talk">>
output_file == <<"/", "out", "/", "talk.html">>

Join(a, b) ==
    IF Len(b) > 0 /\ b[1] = "/" THEN b
    ELSE IF Len(a) = 0 \/ a[Len(a)] = "/" THEN a \o b
    ELSE a \o <<"/">> \o b

RECURSIVE Basename(_)
Basename(p) ==
    IF Len(p) = 0 THEN <<>>
    ELSE IF \E i \in DOMAIN p : p[i] = "/"
    THEN Basename(Tail(p))
    ELSE p

Abs(p) == Join(cwd, p)

rsttools_root == <<"/", "rsttools">>
rstslide_root == Join(rsttools_root, <<"rstslide">>)
reveal_root == Join(Join(Join(rsttools_root, <<"external">>), <<"reveal.js">>), <<"dist">>)
mathjax_root == Join(Join(rsttools_root, <<"external">>), <<"mathjax">>)

Exists(fs, ds, p) == Abs(p) \in DOMAIN fs \/ Abs(p) \in ds

IsPrefix(a, b) == Len(a) <= Len(b) /\ SubSeq(b, 1, Len(a)) = a

Asset(data) == [kind |-> "asset", fields |-> <<>>, data |-> data]
Rst(fields) == [kind |-> "rst", fields |-> fields, data |-> <<>>]

Event(src, dest) == [src |-> src, dest |-> dest]

----------------------------------------------------------------------------
(* Parser.__init__ *)

DefaultSettings ==
    [k \in {K("css_embedd"), K("css_files"), K("js_embedd"), K("js_files"),
            K("reveal_theme"), K("transition"), K("pygments_style"), K("stylesheet"),
            K("vertical_center"), K("horizontal_center"), K("title_center"),
            K("write_footer"), K("page_number"), K("controls"),
            K("firstslide_template"), K("footer_template"), K("init_html")} |->
        CASE k \in {K("css_embedd"), K("css_files"), K("js_embedd"), K("js_files")}
                -> List(<<>>)
          [] k = K("reveal_theme") -> Str(<<"white">>)
          [] k = K("transition") -> Str(<<"fade">>)
          [] k = K("pygments_style") -> Str(<<"default">>)
          [] k \in {K("stylesheet"), K("firstslide_template"), K("footer_template"),
                    K("init_html")} -> Str(<<>>)
          [] OTHER -> Bool(FALSE)]

----------------------------------------------------------------------------
(* Parser._setup *)

PygmentsCss(style) == <<"pygments-css:">> \o style

(* Variant: an existing resource directory is kept as it is *)
RmTree_Keep(fs, dir) == fs

RmTree(fs, dir) == [p \in {q \in DOMAIN fs : ~IsPrefix(dir, q)} |-> fs[p]]

SetupFor(policy) ==
    LET rdir == Join(curr_dir, output_name \o <<"_rstslide">>)
        local == policy = "local"
        dirs1 == IF local
                 THEN {q \in dirs : ~IsPrefix(rdir, q)}
                        \cup {rdir, Join(rdir, <<"reveal">>), Join(rdir, <<"mathjax">>)}
                 ELSE dirs
        files1 == IF local THEN RmTree(files, rdir) ELSE files
        created1 == IF local
                    THEN <<Event(reveal_root, Join(rdir, <<"reveal">>)),
                           Event(mathjax_root, Join(rdir, <<"mathjax">>))>>
                    ELSE <<>>
        abspath == IF local THEN rdir ELSE None
        relpath == IF local THEN output_name \o <<"_rstslide">> ELSE None
        style == settings[K("pygments_style")]
        base == [settings |-> settings, dirs |-> dirs1, files |-> files1,
                 created |-> created1, abspath |-> abspath, relpath |-> relpath,
                 is_pygments |-> FALSE, warnings |-> <<>>, getcwd |-> cwd, err |-> ""]
        cssfile == Join(abspath, <<"pygments.css">>)
    IN IF style = Str(<<>>) THEN base
       ELSE IF ~env.pygments_lib
       THEN [base EXCEPT !.warnings = <<"Pygments is not installed">>]
       ELSE IF policy \in {"inline", "central"}
       THEN IF ~env.pygmentize
            THEN [base EXCEPT !.is_pygments = TRUE, !.err = "FileNotFoundError",
                      !.getcwd = curr_dir]
            ELSE [base EXCEPT !.is_pygments = TRUE,
                      !.settings = Put(settings, K("css_embedd"),
                          List(settings[K("css_embedd")].list \o <<PygmentsCss(style.str)>>))]
       ELSE IF abspath = None
       THEN [base EXCEPT !.is_pygments = TRUE, !.err = "TypeError", !.getcwd = curr_dir]
       ELSE IF ~env.pygmentize
       THEN [base EXCEPT !.is_pygments = TRUE, !.err = "FileNotFoundError",
                 !.getcwd = curr_dir, !.files = Put(files1, cssfile, Asset(<<>>))]
       ELSE [base EXCEPT !.is_pygments = TRUE,
                 !.files = Put(files1, cssfile, Asset(PygmentsCss(style.str))),
                 !.created = created1 \o <<Event(<<"pygmentize">>, cssfile)>>,
                 !.settings = Put(settings, K("css_files"),
                     List(settings[K("css_files")].list
                          \o <<Join(relpath, <<"pygments.css">>)>>))]

SetupResult == SetupFor(resources)

_setup ==
    /\ pc = "setup"
    /\ LET r == SetupResult
       IN /\ settings' = r.settings
          /\ dirs' = r.dirs
          /\ files' = r.files
          /\ created' = r.created
          /\ resource_dir_abspath' = r.abspath
          /\ resource_dir_relpath' = r.relpath
          /\ is_pygments' = r.is_pygments
          /\ warnings' = warnings \o r.warnings
          /\ error' = r.err
          /\ traceback' = IF r.err # "" THEN pc ELSE traceback
          /\ error_key' = <<>>
          /\ getcwd' = r.getcwd
          /\ pc' = IF r.err # "" THEN "error" ELSE "parse"
    /\ UNCHANGED <<resources, doctree, parts, reads, env, doc_settings, pre_theme,
                   meta_info, titleslide, footer_html, header, body, footer, output>>

----------------------------------------------------------------------------
(* Parser.create_slides: document metadata, parts, theme *)

ParseDocument ==
    /\ pc = "parse"
    /\ LET r == _parse_docinfo(doctree, settings)
       IN /\ settings' = r.d
          /\ doc_settings' = r.d
          /\ error' = r.err
          /\ traceback' = IF r.err # "" THEN pc ELSE traceback
          /\ error_key' = <<>>
          /\ getcwd' = getcwd
          /\ pc' = IF r.err # "" THEN "error" ELSE "parts"
    /\ UNCHANGED <<warnings, resources, doctree, parts, dirs, files, created, reads, env,
                   pre_theme, resource_dir_abspath, resource_dir_relpath, is_pygments,
                   meta_info, titleslide, footer_html, header, body, footer, output>>

PublishParts ==
    /\ pc = "parts"
    /\ settings' = Put(Put(settings, K("title"), Str(parts.title)),
                       K("subtitle"), Str(parts.subtitle))
    /\ pc' = "theme"
    /\ UNCHANGED <<error, error_key, traceback, getcwd, warnings, resources, doctree, parts,
                   dirs, files, created,
                   reads, env, doc_settings, pre_theme, resource_dir_abspath, resource_dir_relpath,
                   is_pygments, meta_info, titleslide, footer_html, header, body,
                   footer, output>>

_dict_to_rst_replacements(d) ==
    [key \in DOMAIN d |->
        CASE d[key].kind = "str" -> d[key].str
          [] d[key].kind = "list" -> Concat(d[key].list)
          [] OTHER -> <<>>]

RECURSIVE Substitute(_, _)
Substitute(nodelist, repl) ==
    IF Len(nodelist) = 0 THEN <<>>
    ELSE LET n == Head(nodelist)
             m == IF n.tagName = "substitution_reference"
                  THEN IF n.data \in DOMAIN repl
                       THEN TextNode(repl[n.data])
                       ELSE Elem("problematic", <<TextNode(<<"|">> \o n.data \o <<"|">>)>>)
                  ELSE [n EXCEPT !.childNodes = Substitute(n.childNodes, repl)]
         IN <<m>> \o Substitute(Tail(nodelist), repl)

publish_doctree(repl, source) ==
    [source EXCEPT !.childNodes = Substitute(source.childNodes, repl)]

(* Variant: the theme is extracted on its own and laid under the settings *)
MergeTheme_DocumentOnTop(tree, d) ==
    LET r == _parse_docinfo(tree, <<>>)
    IN [r EXCEPT !.d = d @@ r.d]

MergeTheme(tree, d) == _parse_docinfo(tree, d)

ThemeResult ==
    LET theme == settings[K("theme")]
        local == Join(<<"themes">>, theme.str)
        builtin == Join(Join(rstslide_root, <<"themes">>), theme.str)
        s1 == IF Exists(files, dirs, local)
              THEN Put(settings, K("theme_path"), Str(local))
              ELSE IF Exists(files, dirs, builtin)
              THEN Put(settings, K("theme_path"), Str(builtin))
              ELSE settings
        base == [settings |-> s1, warnings |-> <<>>, read |-> <<>>, err |-> ""]
    IN IF theme.kind # "str" THEN [base EXCEPT !.settings = settings, !.err = "TypeError"]
       ELSE IF ~Has(s1, K("theme_path"))
       THEN [base EXCEPT !.warnings = <<<<"WARNING: theme ">> \o theme.str
                                                \o <<" does not exist">>>>]
       ELSE IF s1[K("theme_path")].kind # "str" THEN [base EXCEPT !.err = "TypeError"]
       ELSE LET f == Abs(Join(s1[K("theme_path")].str, <<"theme.rst">>))
            IN IF f \notin DOMAIN files THEN [base EXCEPT !.err = "IOError"]
               ELSE LET tree == publish_doctree(_dict_to_rst_replacements(s1),
                                                Document(files[f].fields, <<>>))
                        r == MergeTheme(tree, s1)
                    IN IF r.err # ""
                       THEN [base EXCEPT !.settings = r.d, !.read = <<f>>, !.err = r.err]
                       ELSE [base EXCEPT !.settings = Del(r.d, K("theme_path")),
                                         !.read = <<f>>]

ResolveTheme ==
    /\ pc = "theme"
    /\ pre_theme' = settings
    /\ IF ~Has(settings, K("theme"))
       THEN /\ pc' = "titleslide"
            /\ UNCHANGED <<settings, warnings, error, error_key, traceback, getcwd, reads>>
       ELSE LET r == ThemeResult
            IN /\ settings' = r.settings
               /\ warnings' = warnings \o r.warnings
               /\ reads' = reads \o r.read
               /\ error' = r.err
               /\ traceback' = IF r.err # "" THEN pc ELSE traceback
               /\ error_key' = <<>>
               /\ getcwd' = getcwd
               /\ pc' = IF r.err # "" THEN "error" ELSE "titleslide"
    /\ UNCHANGED <<resources, doctree, parts, dirs, files, created, env, doc_settings,
                   resource_dir_abspath, resource_dir_relpath, is_pygments, meta_info,
                   titleslide, footer_html, header, body, footer, output>>

----------------------------------------------------------------------------
(* Templates: the % operator with a mapping, and html.unescape *)

getitem_OrEmpty(mapping, name) ==
    [val |-> IF K(name) \in DOMAIN mapping THEN mapping[K(name)] ELSE <<>>,
     err |-> "", key |-> <<>>]

getitem(mapping, name) ==
    IF K(name) \in DOMAIN mapping
    THEN [val |-> mapping[K(name)], err |-> "", key |-> <<>>]
    ELSE [val |-> <<>>, err |-> "KeyError", key |-> K(name)]

RECURSIVE Render(_, _)
Render(template, mapping) ==
    IF Len(template) = 0 THEN [out |-> <<>>, err |-> "", key |-> <<>>]
    ELSE IF Head(template) = "%("
    THEN IF Len(template) < 3 \/ template[3] # ")s"
         THEN [out |-> <<>>, err |-> "ValueError", key |-> <<>>]
         ELSE LET v == getitem(mapping, template[2])
              IN IF v.err # "" THEN [out |-> <<>>, err |-> v.err, key |-> v.key]
                 ELSE LET r == Render(SubSeq(template, 4, Len(template)), mapping)
                      IN [r EXCEPT !.out = v.val \o r.out]
    ELSE LET r == Render(Tail(template), mapping)
         IN [r EXCEPT !.out = <<Head(template)>> \o r.out]

UnescapeTok(t) ==
    CASE t = "&lt;" -> "<"
      [] t = "&gt;" -> ">"
      [] t = "&amp;" -> "&"
      [] t = "&lt;h1&gt;" -> "<h1>"
      [] t = "&lt;/h1&gt;" -> "</h1>"
      [] OTHER -> t

unescape(s) == [i \in DOMAIN s |-> UnescapeTok(s[i])]

DefaultFirstslideTemplate ==
    <<"<section class=\"titleslide\" data-state=\"no-toc-progress\">",
      "<h1>", "%(", "title", ")s", "</h1>",
      "<h3>", "%(", "subtitle", ")s", "</h3>",
      "<br>",
      "<p><a href=\"mailto:", "%(", "email", ")s", "\">", "%(", "author", ")s", "</a>", " ",
      "%(", "is_institution", ")s", " ", "%(", "institution", ")s", "</p>",
      "<p><small>", "%(", "email", ")s", "</small></p>",
      "<p>", "%(", "date", ")s", "</p>",
      "</section>">>

DefaultFooterTemplate ==
    <<"<b>", "%(", "title", ")s", " ", "%(", "is_subtitle", ")s", " ",
      "%(", "subtitle", ")s", ".</b>", " ", "%(", "author", ")s",
      "%(", "is_institution", ")s", " ", "%(", "institution", ")s", ". ",
      "%(", "date", ")s">>

----------------------------------------------------------------------------
(* Parser._analyse_metainfo and Parser._generate_titleslide *)

FirstIndex(s, toks) == CHOOSE i \in DOMAIN s : s[i] \in toks /\ \A j \in 1..(i - 1) : s[j] \notin toks
LastIndex(s, tok) == CHOOSE i \in DOMAIN s : s[i] = tok /\ \A j \in (i + 1)..Len(s) : s[j] # tok

Between(text, opens, close) ==
    LET i == FirstIndex(text, opens)
    IN IF \E j \in (i + 2)..Len(text) : text[j] = close
       THEN [text |-> SubSeq(text, i + 1, LastIndex(text, close) - 1), err |-> ""]
       ELSE [text |-> text, err |-> "IndexError"]

CleanStep(r, opens, close) ==
    IF r.err # "" \/ ~\E i \in DOMAIN r.text : r.text[i] \in opens THEN r
    ELSE Between(r.text, opens, close)

clean(text) ==
    CleanStep(CleanStep(CleanStep(CleanStep([text |-> text, err |-> ""],
        {"<paragraph>"}, "</paragraph>"),
        {"<author>"}, "</author>"),
        {"<date>"}, "</date>"),
        {"<reference refuri=\"mailto:", "<reference refuri=\"http:"}, "\">")

RECURSIVE RemoveAll(_, _)
RemoveAll(t, pat) ==
    IF Len(t) < Len(pat) THEN t
    ELSE IF SubSeq(t, 1, Len(pat)) = pat THEN RemoveAll(SubSeq(t, Len(pat) + 1, Len(t)), pat)
    ELSE <<Head(t)>> \o RemoveAll(Tail(t), pat)

LineName(t) ==
    IF \E i \in DOMAIN t : t[i] = "=" THEN SubSeq(t, 1, FirstIndex(t, {"="}) - 1) ELSE t

RECURSIVE MetaLines(_, _)
MetaLines(texts, m) ==
    IF Len(texts) = 0 THEN Ok(m)
    ELSE LET t == Head(texts)
         IN IF Len(t) = 0 THEN MetaLines(Tail(texts), m)
            ELSE LET name == LineName(t)
                     content == clean(RemoveAll(t, name \o <<"=">>))
                 IN IF content.err # "" THEN Raise(m, content.err)
                    ELSE MetaLines(Tail(texts), Put(m, name, content.text))

Default(m, k) == IF Has(m, k) THEN m ELSE Put(m, k, <<>>)

Separators(m) ==
    Put(Put(Put(m,
        K("is_institution"), IF m[K("institution")] # <<>> THEN <<"-">> ELSE <<>>),
        K("is_author"), IF m[K("author")] # <<>> THEN <<".">> ELSE <<>>),
        K("is_subtitle"), IF m[K("subtitle")] # <<>> THEN <<".">> ELSE <<>>)

TitleslideMeta(m0) ==
    LET m1 == IF parts.title # <<>> THEN Put(m0, K("title"), parts.title)
              ELSE Default(m0, K("title"))
        m2 == IF parts.subtitle # <<>> THEN Put(m1, K("subtitle"), parts.subtitle)
              ELSE Default(m1, K("subtitle"))
    IN Separators(Default(Default(Default(m2, K("email")), K("institution")), K("date")))

FirstslideTemplate(st) ==
    IF st[K("firstslide_template")] = Str(<<>>) THEN DefaultFirstslideTemplate
    ELSE unescape(st[K("firstslide_template")].str)

FooterTemplate(st) ==
    IF st[K("footer_template")] = Str(<<>>) THEN DefaultFooterTemplate
    ELSE st[K("footer_template")].str

TitleslideResult ==
    LET lines == MetaLines(parts.metadata, [k \in {K("author")} |-> <<>>])
        m == TitleslideMeta(lines.d)
        base == [settings |-> settings, meta_info |-> lines.d, titleslide |-> <<>>,
                 footer_html |-> <<>>, err |-> "", key |-> <<>>]
        tfirst == settings[K("firstslide_template")]
        tfoot == settings[K("footer_template")]
        s1 == Put(settings, K("firstslide_template"), Str(FirstslideTemplate(settings)))
        slide == Render(s1[K("firstslide_template")].str, m)
        s2 == Put(s1, K("footer_template"), Str(FooterTemplate(s1)))
        foot == Render(s2[K("footer_template")].str, m)
    IN IF lines.err # "" THEN [base EXCEPT !.err = lines.err]
       ELSE IF tfirst.kind # "str" THEN [base EXCEPT !.meta_info = m, !.err = "TypeError"]
       ELSE IF slide.err # ""
       THEN [base EXCEPT !.meta_info = m, !.settings = s1, !.err = slide.err,
                         !.key = slide.key]
       ELSE IF Truthy(settings[K("write_footer")])
       THEN IF tfoot.kind # "str"
            THEN [base EXCEPT !.meta_info = m, !.settings = s2, !.titleslide = slide.out,
                              !.err = "TypeError"]
            ELSE IF foot.err # ""
            THEN [base EXCEPT !.meta_info = m, !.settings = s2, !.titleslide = slide.out,
                              !.err = foot.err, !.key = foot.key]
            ELSE [base EXCEPT !.meta_info = m, !.settings = s2, !.titleslide = slide.out,
                      !.footer_html = <<"<footer id=\"footer\">">> \o foot.out
                          \o <<"<b id=\"slide_number\" style=\"padding: 1em;\"></b></footer>">>]
       ELSE IF Truthy(settings[K("page_number")])
       THEN [base EXCEPT !.meta_info = m, !.settings = s2, !.titleslide = slide.out,
                 !.footer_html = <<"<footer><b id=\"slide_number\"></b></footer>">>]
       ELSE [base EXCEPT !.meta_info = m, !.settings = s2, !.titleslide = slide.out]

_analyse_metainfo ==
    /\ pc = "titleslide"
    /\ LET r == TitleslideResult
       IN /\ settings' = r.settings
          /\ meta_info' = r.meta_info
          /\ titleslide' = r.titleslide
          /\ footer_html' = r.footer_html
          /\ error' = r.err
          /\ traceback' = IF r.err # "" THEN pc ELSE traceback
          /\ error_key' = r.key
          /\ getcwd' = getcwd
          /\ pc' = IF r.err # "" THEN "error" ELSE "header"
    /\ UNCHANGED <<warnings, resources, doctree, parts, dirs, files, created, reads, env,
                   doc_settings, pre_theme, resource_dir_abspath, resource_dir_relpath,
                   is_pygments, header, body, footer, output>>

----------------------------------------------------------------------------
(* Parser._generate_header *)

DefaultJsFiles ==
    <<Join(mathjax_root, <<"tex-svg.js">>), Join(reveal_root, <<"reveal.js">>)>>

DefaultCssFiles(st) ==
    <<Join(reveal_root, <<"reveal.css">>),
      Join(Join(reveal_root, <<"theme">>), st[K("reveal_theme")].str \o <<".css">>),
      Join(Join(rstslide_root, <<"css">>), <<"rstslide.css">>)>>

ExtraMeta(st) ==
    (IF Has(st, K("abstract")) THEN <<[name |-> "description", content |-> st[K("abstract")].str]>>
     ELSE <<>>)
    \o (IF Has(st, K("author")) THEN <<[name |-> "author", content |-> st[K("author")].str]>>
        ELSE <<>>)
    \o (IF Has(st, K("authors"))
        THEN [i \in DOMAIN st[K("authors")].list |->
                 [name |-> "author", content |-> st[K("authors")].list[i]]]
        ELSE <<>>)

Script(path) == [path |-> path]

Link(path) ==
    [path |-> path, theme |-> Contains(path, Join(reveal_root, <<"theme">>))]

Inlined(path, data) == [marker |-> path, data |-> data]

(* Variant: the copy is made even when the destination exists *)
IncludeAsset_AlwaysCopy(file, a) ==
    LET abspath == Join(resource_dir_abspath, Basename(file))
        copy == resources = "local"
        path == IF resources = "local" THEN Join(resource_dir_relpath, Basename(file))
                ELSE file
    IN IF copy /\ Abs(file) \notin DOMAIN a.files THEN [a EXCEPT !.err = "IOError"]
       ELSE LET a1 == IF copy
                      THEN [a EXCEPT !.files = Put(a.files, abspath, a.files[Abs(file)]),
                                     !.created = a.created \o <<Event(Abs(file), abspath)>>]
                      ELSE a
            IN IF resources # "inline"
               THEN [a1 EXCEPT !.custom = a1.custom \o <<path>>]
               ELSE IF Abs(file) \notin DOMAIN a1.files THEN [a1 EXCEPT !.err = "IOError"]
               ELSE [a1 EXCEPT !.embedd = a1.embedd \o <<Inlined(path, a1.files[Abs(file)].data)>>,
                               !.reads = a1.reads \o <<Abs(file)>>]

IncludeAsset(file, a) ==
    LET abspath == Join(resource_dir_abspath, Basename(file))
        copy == resources = "local" /\ ~Exists(a.files, dirs, abspath)
        path == IF resources = "local" THEN Join(resource_dir_relpath, Basename(file))
                ELSE file
    IN IF copy /\ Abs(file) \notin DOMAIN a.files THEN [a EXCEPT !.err = "IOError"]
       ELSE LET a1 == IF copy
                      THEN [a EXCEPT !.files = Put(a.files, abspath, a.files[Abs(file)]),
                                     !.created = a.created \o <<Event(Abs(file), abspath)>>]
                      ELSE a
            IN IF resources # "inline"
               THEN [a1 EXCEPT !.custom = a1.custom \o <<path>>]
               ELSE IF Abs(file) \notin DOMAIN a1.files THEN [a1 EXCEPT !.err = "IOError"]
               ELSE [a1 EXCEPT !.embedd = a1.embedd \o <<Inlined(path, a1.files[Abs(file)].data)>>,
                               !.reads = a1.reads \o <<Abs(file)>>]

RECURSIVE IncludeAssets(_, _)
IncludeAssets(list, a) ==
    IF Len(list) = 0 \/ a.err # "" THEN a
    ELSE IncludeAssets(Tail(list), IncludeAsset(Head(list), a))

Embedded(v) ==
    IF v.kind = "list" THEN [i \in DOMAIN v.list |-> Inlined(None, v.list[i])]
    ELSE <<Inlined(None, v.str)>>

(* Variant: the built-in assets are added after the declared ones *)
PrependDefaults_Appended(defaults, declared) == declared \o defaults

PrependDefaults(defaults, declared) == defaults \o declared

NoHeader ==
    [title |-> <<>>, extra_meta |-> <<>>, custom_js |-> <<>>, custom_stylesheets |-> <<>>,
     js_embedd |-> <<>>, css_embedd |-> <<>>, horizontal_center |-> "", title_center |-> ""]

HeaderResult ==
    LET js_files == PrependDefaults(DefaultJsFiles, settings[K("js_files")].list)
        s1 == Put(settings, K("js_files"), List(js_files))
        a0 == [files |-> files, created |-> created, reads |-> reads,
               custom |-> <<>>, embedd |-> <<>>, err |-> ""]
        js == IncludeAssets(js_files, a0)
        css_files == PrependDefaults(DefaultCssFiles(s1), s1[K("css_files")].list)
        s2 == Put(s1, K("css_files"), List(css_files))
        css == IncludeAssets(css_files, [js EXCEPT !.custom = <<>>, !.embedd = <<>>])
        base == [settings |-> settings, files |-> files, created |-> created,
                 reads |-> reads, header |-> NoHeader, err |-> ""]
    IN IF settings[K("js_files")].kind # "list" THEN [base EXCEPT !.err = "TypeError"]
       ELSE IF js.err # ""
       THEN [base EXCEPT !.settings = s1, !.files = js.files, !.created = js.created,
                         !.reads = js.reads, !.err = js.err]
       ELSE IF settings[K("js_embedd")].kind = "bool"
            \/ s1[K("reveal_theme")].kind # "str" \/ s1[K("css_files")].kind # "list"
       THEN [base EXCEPT !.settings = s1, !.files = js.files, !.created = js.created,
                         !.reads = js.reads, !.err = "TypeError"]
       ELSE IF css.err # ""
       THEN [base EXCEPT !.settings = s2, !.files = css.files, !.created = css.created,
                         !.reads = css.reads, !.err = css.err]
       ELSE IF settings[K("css_embedd")].kind = "bool"
       THEN [base EXCEPT !.settings = s2, !.files = css.files, !.created = css.created,
                         !.reads = css.reads, !.err = "TypeError"]
       ELSE [base EXCEPT !.settings = s2, !.files = css.files, !.created = css.created,
                 !.reads = css.reads,
                 !.header = [title |-> parts.title,
                             extra_meta |-> ExtraMeta(settings),
                             custom_js |-> [i \in DOMAIN js.custom |-> Script(js.custom[i])],
                             custom_stylesheets |->
                                 [i \in DOMAIN css.custom |-> Link(css.custom[i])],
                             js_embedd |-> js.embedd \o Embedded(settings[K("js_embedd")]),
                             css_embedd |-> css.embedd \o Embedded(settings[K("css_embedd")]),
                             horizontal_center |->
                                 IF Truthy(settings[K("horizontal_center")])
                                 THEN "center" ELSE "left",
                             title_center |->
                                 IF Truthy(settings[K("title_center")])
                                 THEN "center" ELSE "left"]]

_generate_header ==
    /\ pc = "header"
    /\ LET r == HeaderResult
       IN /\ settings' = r.settings
          /\ files' = r.files
          /\ created' = r.created
          /\ reads' = r.reads
          /\ header' = r.header
          /\ error' = r.err
          /\ traceback' = IF r.err # "" THEN pc ELSE traceback
          /\ error_key' = <<>>
          /\ getcwd' = getcwd
          /\ pc' = IF r.err # "" THEN "error" ELSE "body"
    /\ UNCHANGED <<warnings, resources, doctree, parts, dirs, env, doc_settings, pre_theme,
                   resource_dir_abspath, resource_dir_relpath, is_pygments, meta_info,
                   titleslide, footer_html, body, footer, output>>

----------------------------------------------------------------------------
(* Parser._generate_body, Parser._generate_footer, Parser._produce_output *)

NoBody == [titleslide |-> <<>>, body |-> <<>>]

_generate_body ==
    /\ pc = "body"
    /\ body' = [titleslide |-> titleslide, body |-> parts.body]
    /\ pc' = "footer"
    /\ UNCHANGED <<error, error_key, traceback, getcwd, warnings, resources, settings,
                   doctree, parts, dirs, files,
                   created, reads, env, doc_settings, pre_theme, resource_dir_abspath,
                   resource_dir_relpath, is_pygments, meta_info, titleslide, footer_html,
                   header, footer, output>>

TextOf(v) ==
    CASE v.kind = "str" -> v.str
      [] v.kind = "list" -> Concat(v.list)
      [] OTHER -> IF v.flag THEN <<"True">> ELSE <<"False">>

Dependencies ==
    <<Join(rsttools_root, <<"reveal-plugins", "/", "reveal.js-menu", "/", "menu.js">>),
      Join(rsttools_root, <<"reveal-plugins", "/", "toc-progress", "/", "toc-progress.js">>)>>

NoFooter ==
    [init_html |-> <<>>, dependencies |-> <<>>, controls |-> "", center |-> "",
     transition |-> <<>>, footer |-> <<>>]

FooterMapping ==
    [k \in {K("transition"), K("footer"), K("reveal_root"), K("rstslide_root"),
            K("rsttools_root"), K("script_page_number"), K("vertical_center"),
            K("controls")} |->
        CASE k = K("transition") -> TextOf(settings[K("transition")])
          [] k = K("footer") -> footer_html
          [] k = K("reveal_root") -> reveal_root
          [] k = K("rstslide_root") -> rstslide_root
          [] k = K("rsttools_root") -> rsttools_root
          [] k = K("script_page_number") -> <<>>
          [] k = K("vertical_center") ->
                IF Truthy(settings[K("vertical_center")]) THEN <<"true">> ELSE <<"false">>
          [] OTHER -> IF Truthy(settings[K("controls")]) THEN <<"true">> ELSE <<"false">>]

FooterResult ==
    LET custom == Truthy(settings[K("init_html")])
        init == Render(TextOf(settings[K("init_html")]), FooterMapping)
    IN IF custom /\ init.err # ""
       THEN [footer |-> NoFooter, err |-> init.err, key |-> init.key]
       ELSE [footer |-> [init_html |-> IF custom THEN init.out ELSE <<>>,
                         dependencies |-> IF custom THEN <<>> ELSE Dependencies,
                         controls |-> IF custom THEN "" ELSE FooterMapping[K("controls")][1],
                         center |-> IF custom THEN ""
                                    ELSE FooterMapping[K("vertical_center")][1],
                         transition |-> IF custom THEN <<>> ELSE FooterMapping[K("transition")],
                         footer |-> footer_html],
             err |-> "", key |-> <<>>]

_generate_footer ==
    /\ pc = "footer"
    /\ LET r == FooterResult
       IN /\ footer' = r.footer
          /\ error' = r.err
          /\ traceback' = IF r.err # "" THEN pc ELSE traceback
          /\ error_key' = r.key
          /\ getcwd' = getcwd
          /\ pc' = IF r.err # "" THEN "error" ELSE "write"
    /\ UNCHANGED <<warnings, resources, settings, doctree, parts, dirs, files, created,
                   reads, env, doc_settings, pre_theme, resource_dir_abspath,
                   resource_dir_relpath, is_pygments, meta_info, titleslide, footer_html,
                   header, body, output>>

NoOutput == [header |-> NoHeader, body |-> NoBody, footer |-> NoFooter]

_produce_output ==
    /\ pc = "write"
    /\ output' = [header |-> header, body |-> body, footer |-> footer]
    /\ pc' = "done"
    /\ UNCHANGED <<error, error_key, traceback, getcwd, warnings, resources, settings,
                   doctree, parts, dirs, files,
                   created, reads, env, doc_settings, pre_theme, resource_dir_abspath,
                   resource_dir_relpath, is_pygments, meta_info, titleslide, footer_html,
                   header, body, footer>>

Next ==
    \/ _setup
    \/ ParseDocument
    \/ PublishParts
    \/ ResolveTheme
    \/ _analyse_metainfo
    \/ _generate_header
    \/ _generate_body
    \/ _generate_footer
    \/ _produce_output

----------------------------------------------------------------------------
(* Inputs of a run: the document, the rendered parts, the environment and   *)
(* the file system                                                         *)

SeqsUpTo(S, n) == UNION {[1..k -> S] : k \in 0..n}

ContentOf(p) == Asset(<<"content of ">> \o p)

InstalledAssets ==
    DefaultJsFiles \o DefaultCssFiles(DefaultSettings)

UserAssets ==
    {<<"a.js">>, <<"lib", "/", "a.js">>, <<"a.css">>, <<"lib", "/", "a.css">>}

alt_theme == <<Field(<<"transition">>, <<Para(<<"zoom">>)>>)>>

BaseFiles ==
    [p \in {InstalledAssets[i] : i \in DOMAIN InstalledAssets} \cup {Abs(a) : a \in UserAssets}
        |-> ContentOf(p)]
    @@ (Abs(<<"alt", "/", "theme.rst">>) :> Rst(alt_theme))

BaseDirs == {cwd, curr_dir, Abs(<<"lib">>), Abs(<<"alt">>), reveal_root, mathjax_root}

local_theme == Abs(<<"themes", "/", "night">>)
builtin_theme == Join(rstslide_root, <<"themes", "/", "night">>)
stale_dir == Join(curr_dir, output_name \o <<"_rstslide">>)

ThemePlaces == {"nowhere", "local", "builtin", "both", "local_dir_only"}

FileSystem(place, theme_fields, stale) ==
    [dirs |-> BaseDirs
              \cup (IF place \in {"local", "both", "local_dir_only"} THEN {local_theme} ELSE {})
              \cup (IF place \in {"builtin", "both"} THEN {builtin_theme} ELSE {})
              \cup (IF stale THEN {stale_dir} ELSE {}),
     files |-> (IF place \in {"local", "both"}
                THEN Join(local_theme, <<"theme.rst">>) :> Rst(theme_fields)
                ELSE <<>>)
               @@ (IF place \in {"builtin", "both"}
                   THEN Join(builtin_theme, <<"theme.rst">>)
                            :> Rst(IF place = "both" THEN <<>> ELSE theme_fields)
                   ELSE <<>>)
               @@ (IF stale
                   THEN Join(stale_dir, <<"a.css">>) :> Asset(<<"stale">>)
                   ELSE <<>>)
               @@ BaseFiles]

DefaultParts ==
    [title |-> <<"Intro">>, subtitle |-> <<>>, body |-> <<"<section>", "</section>">>,
     metadata |-> <<>>]

Environment(lib, tool) == [pygments_lib |-> lib, pygmentize |-> tool]

InitWith(policies, docs, partss, envs, fss) ==
    /\ pc = "setup"
    /\ error = ""
    /\ error_key = <<>>
    /\ traceback = ""
    /\ getcwd = cwd
    /\ warnings = <<>>
    /\ resources \in policies
    /\ settings = DefaultSettings
    /\ doctree \in docs
    /\ parts \in partss
    /\ env \in envs
    /\ \E fs \in fss : dirs = fs.dirs /\ files = fs.files
    /\ created = <<>>
    /\ reads = <<>>
    /\ doc_settings = DefaultSettings
    /\ pre_theme = DefaultSettings
    /\ resource_dir_abspath = None
    /\ resource_dir_relpath = None
    /\ is_pygments = FALSE
    /\ meta_info = <<>>
    /\ titleslide = <<>>
    /\ footer_html = <<>>
    /\ header = NoHeader
    /\ body = NoBody
    /\ footer = NoFooter
    /\ output = NoOutput

(* Documents whose docinfo exercises the -list / -list-add dispatch *)
ItemTexts == {<<"a.css">>, <<"lib", "/", "a.css">>}

ListBodies ==
    {<<>>} \cup {<<Para(t)>> : t \in ItemTexts}
           \cup {<<Bullets(items)>> : items \in SeqsUpTo(ItemTexts, MaxItems) \ {<<>>}}

ListFields ==
    {Field(name, kids) : name \in {<<"css_files", "-list">>, <<"css_files", "-list", "-add">>},
                         kids \in ListBodies}
    \cup {Field(<<"css_files">>, <<Para(<<"a.css">>)>>)}

InitDocinfo ==
    InitWith({"central"},
             {Document(fields, <<>>) : fields \in SeqsUpTo(ListFields, MaxFields)},
             {DefaultParts}, {Environment(TRUE, TRUE)},
             {FileSystem("nowhere", <<>>, FALSE)})

(* Documents and theme files for theme resolution *)
ThemedFields ==
    {Field(<<"Theme">>, <<Para(<<"night">>)>>),
     Field(<<"theme_path">>, <<Para(<<"alt">>)>>),
     Field(<<"transition">>, <<Para(<<"cube">>)>>),
     Field(<<"css_files", "-list">>, <<Para(<<"a.css">>)>>)}

ThemeFileFields ==
    {Field(<<"Transition">>, <<Para(<<"page">>)>>),
     Field(<<"theme_path">>, <<Para(<<"lib">>)>>),
     Field(<<"css_files", "-list">>, <<Para(<<"lib", "/", "a.css">>)>>),
     Field(<<"css_files", "-list", "-add">>, <<Para(<<"lib", "/", "a.css">>)>>),
     Field(<<"init_html">>,
           <<Elem("paragraph", <<[TextNode(<<"transition">>) EXCEPT
                                     !.tagName = "substitution_reference"]>>)>>)}

InitTheme ==
    InitWith({"central"},
             {Document(fields, <<>>) : fields \in SeqsUpTo(ThemedFields, MaxFields)},
             {DefaultParts}, {Environment(TRUE, TRUE)},
             {FileSystem(place, fields, FALSE) :
                 place \in ThemePlaces, fields \in SeqsUpTo(ThemeFileFields, MaxThemeFields)})

(* Documents declaring script and stylesheet assets, under every policy *)
AssetFields ==
    {Field(<<"js_files", suffix[1]>> \o Tail(suffix), <<Para(a)>>) :
        suffix \in {<<"-list">>, <<"-list", "-add">>},
        a \in {<<"a.js">>, <<"lib", "/", "a.js">>}}
    \cup {Field(<<"css_files", suffix[1]>> \o Tail(suffix), <<Para(a)>>) :
        suffix \in {<<"-list">>, <<"-list", "-add">>},
        a \in {<<"a.css">>, <<"lib", "/", "a.css">>, <<"missing.css">>}}

InitHeader ==
    InitWith({"central", "local", "inline", "online"},
             {Document(fields, <<>>) : fields \in SeqsUpTo(AssetFields, MaxFields)},
             {DefaultParts},
             {Environment(TRUE, TRUE), Environment(FALSE, FALSE)},
             {FileSystem("nowhere", <<>>, stale) : stale \in BOOLEAN})

(* Rendered parts and metadata for the title slide and the footer *)
MetaLineTexts ==
    {<<"author", "=", "<author>", "Ann", "</author>">>,
     <<"institution", "=", "<paragraph>", "KTH", "</paragraph>">>,
     <<"date", "=", "<date>", "2020", "</date>">>,
     <<"email", "=", "<reference refuri=\"mailto:", "ann@kth.se", "\">", "ann@kth.se",
       "</reference>">>}

TitleFields ==
    {Field(<<"write_footer">>, <<Para(<<"True">>)>>),
     Field(<<"page_number">>, <<Para(<<"True">>)>>),
     Field(<<"firstslide_template">>,
           <<Para(<<"&lt;h1&gt;", "%(", "title", ")s", "&lt;/h1&gt;">>)>>),
     Field(<<"footer_template">>, <<Para(<<"%(", "venue", ")s">>)>>)}

InitTitle ==
    InitWith({"central"},
             {Document(fields, <<>>) : fields \in SeqsUpTo(TitleFields, 1)},
             {[DefaultParts EXCEPT !.title = t, !.subtitle = st, !.metadata = lines] :
                 t \in {<<>>, <<"Intro">>}, st \in {<<>>, <<"Sub">>},
                 lines \in SeqsUpTo(MetaLineTexts, MaxLines)},
             {Environment(TRUE, TRUE)},
             {FileSystem("nowhere", <<>>, FALSE)})

(* Documents overriding the title-slide and footer templates *)
TemplateFields ==
    {Field(<<"write_footer">>, <<Para(<<"True">>)>>),
     Field(<<"page_number">>, <<Para(<<"True">>)>>),
     Field(<<"firstslide_template">>,
           <<Para(<<"&lt;h1&gt;", "%(", "title", ")s", "&lt;/h1&gt;">>)>>),
     Field(<<"firstslide_template">>, <<Para(<<"%(", "venue", ")s">>)>>),
     Field(<<"footer_template">>,
           <<Para(<<"&lt;", "b", "&gt;", "%(", "title", ")s", "&lt;", "/b", "&gt;">>)>>),
     Field(<<"footer_template">>, <<Para(<<"%(", "place", ")s">>)>>)}

InitTemplates ==
    InitWith({"central"},
             {Document(fields, <<>>) : fields \in SeqsUpTo(TemplateFields, MaxFields)},
             {[DefaultParts EXCEPT !.title = t, !.metadata = lines] :
                 t \in {<<>>, <<"Intro">>},
                 lines \in SeqsUpTo({<<"author", "=", "<author>", "Ann", "</author>">>}, 1)},
             {Environment(TRUE, TRUE)},
             {FileSystem("nowhere", <<>>, FALSE)})

(* Documents choosing the highlighting style, under every policy and every *)
(* installation of the highlighter                                         *)
HighlightFields ==
    {Field(<<"pygments_style">>, <<>>),
     Field(<<"pygments_style">>, <<Para(<<"monokai">>)>>),
     Field(<<"css_files", "-list", "-add">>, <<Para(<<"a.css">>)>>)}

InitHighlight ==
    InitWith({"central", "local", "inline", "online"},
             {Document(fields, <<>>) : fields \in SeqsUpTo(HighlightFields, MaxFields)},
             {DefaultParts},
             {Environment(lib, tool) : lib \in BOOLEAN, tool \in BOOLEAN},
             {FileSystem("nowhere", <<>>, stale) : stale \in BOOLEAN})

(* Documents setting the boolean flags of the constructor's docstring *)
FlagNames ==
    {"vertical_center", "horizontal_center", "title_center", "footer", "page_number",
     "controls"}

FlagFields == {Field(<<name>>, <<Para(<<v>>)>>) : name \in FlagNames, v \in {"True", "False"}}

InitFlags ==
    InitWith({"central"},
             {Document(fields, <<>>) : fields \in SeqsUpTo(FlagFields, MaxFields)},
             {[DefaultParts EXCEPT !.title = <<"Intro">>]},
             {Environment(TRUE, TRUE)},
             {FileSystem("nowhere", <<>>, FALSE)})

Init ==
    \/ InitDocinfo \/ InitTheme \/ InitHeader \/ InitTitle \/ InitTemplates
    \/ InitHighlight \/ InitFlags

Spec == Init /\ [][Next]_vars
SpecDocinfo == InitDocinfo /\ [][Next]_vars
SpecTheme == InitTheme /\ [][Next]_vars
SpecHeader == InitHeader /\ [][Next]_vars
SpecTitle == InitTitle /\ [][Next]_vars
SpecTemplates == InitTemplates /\ [][Next]_vars
SpecHighlight == InitHighlight /\ [][Next]_vars
SpecFlags == InitFlags /\ [][Next]_vars

----------------------------------------------------------------------------
(* Vocabulary of the properties *)

DocFields(tree) ==
    LET docinfos == getElementsByTagName(tree, "docinfo")
    IN Concat([i \in DOMAIN docinfos |-> docinfos[i].childNodes])

FieldNameOf(f) == Lower(f.childNodes[1].childNodes[1].data)
FieldBodyOf(f) == f.childNodes[2]

IsListField(f) == EndsWith(FieldNameOf(f), <<"-list">>)
IsListAddField(f) == EndsWith(FieldNameOf(f), <<"-list", "-add">>)

DerivedKey(f) ==
    IF IsListField(f) THEN StripSuffix(FieldNameOf(f), <<"-list">>)
    ELSE IF IsListAddField(f) THEN StripSuffix(FieldNameOf(f), <<"-list", "-add">>)
    ELSE FieldNameOf(f)

IsBulleted(f) ==
    /\ Len(FieldBodyOf(f).childNodes) = 1
    /\ FieldBodyOf(f).childNodes[1].tagName = "bullet_list"

BulletTexts(f) ==
    LET items == FieldBodyOf(f).childNodes[1].childNodes
    IN [i \in DOMAIN items |-> getText(<<items[i]>>)]

Parsed == pc \notin {"setup", "parse"} /\ traceback # "setup"
ThemeResolved ==
    \/ pc \in {"titleslide", "header", "body", "footer", "write", "done"}
    \/ pc = "error" /\ traceback \notin {"setup", "parse", "parts"}
ThemeMerged == pc = "titleslide" /\ Len(reads) > 0
TitleslideDone == pc \in {"header", "body", "footer", "write", "done"}
HeaderDone == pc \in {"body", "footer", "write", "done"}

----------------------------------------------------------------------------
(* C1: in _parse_docinfo a field `X-list` whose body is a bulleted list of  *)
(* N >= 1 items leaves under key X a list of exactly N entries, the i-th    *)
(* being the flattened text of the i-th bullet, in source order, replacing  *)
(* whatever X held before.  Stated for the last field of the document that *)
(* writes X, once document extraction has returned.                        *)
C1_ListFieldPerBullet ==
    pc = "parts" =>
        LET fields == DocFields(doctree)
        IN \A i \in DOMAIN fields :
              (/\ IsListField(fields[i])
               /\ IsBulleted(fields[i])
               /\ \A j \in (i + 1)..Len(fields) :
                      DerivedKey(fields[j]) # DerivedKey(fields[i]))
              => /\ Has(settings, DerivedKey(fields[i]))
                 /\ settings[DerivedKey(fields[i])] = List(BulletTexts(fields[i]))

(* C2: a field `X-list-add` with a bulleted body of K items, processed when *)
(* X holds a list of M entries (or is absent), is extracted without error  *)
(* and leaves under X the M old entries, unchanged and in order, followed  *)
(* by the K bullet texts.  Stated for the last field of the document.      *)
C2_ListAddAppends ==
    Parsed =>
        LET fields == DocFields(doctree)
            n == Len(fields)
            before == ParseFields(SubSeq(fields, 1, n - 1), DefaultSettings)
            key == DerivedKey(fields[n])
            old == IF Has(before.d, key) THEN before.d[key].list ELSE <<>>
        IN (/\ n >= 1
            /\ IsListAddField(fields[n])
            /\ IsBulleted(fields[n])
            /\ before.err = ""
            /\ Has(before.d, key) => before.d[key].kind = "list")
           => /\ traceback # "parse"
              /\ doc_settings[key] = List(old \o BulletTexts(fields[n]))

(* The theme file that was read, the keys the document set, and what the   *)
(* theme file alone defines                                                *)
ThemeFields == files[reads[1]].fields
DocumentKeys == {DerivedKey(DocFields(doctree)[i]) : i \in DOMAIN DocFields(doctree)}
ThemeKeys == {DerivedKey(ThemeFields[i]) : i \in DOMAIN ThemeFields}
ThemeSetKeys ==
    {DerivedKey(ThemeFields[i]) : i \in {j \in DOMAIN ThemeFields : ~IsListAddField(ThemeFields[j])}}
ThemeAlone ==
    _parse_docinfo(publish_doctree(_dict_to_rst_replacements(pre_theme),
                                   Document(ThemeFields, <<>>)), <<>>).d

(* C3 as stated: the document is the last writer of the Settings Store, so *)
(* a key set by both the theme file and the document has the document's    *)
(* value when output production starts.                                    *)
C3_DocumentWritesLast ==
    ThemeMerged =>
        \A key \in (DocumentKeys \cap ThemeSetKeys) \ {K("theme_path")} :
            Has(settings, key) /\ settings[key] = doc_settings[key]

(* C3 as amended: the Settings Store is written in the order defaults,     *)
(* document metadata, theme metadata.  What the document extracted is in   *)
(* the store before the theme merge, and a key set by both the theme file  *)
(* and the document has the theme's value when output production starts.  *)
C3_ThemeWritesLast ==
    ThemeMerged =>
        /\ \A key \in DOMAIN doc_settings \ {K("title"), K("subtitle")} :
               Has(pre_theme, key) /\ pre_theme[key] = doc_settings[key]
        /\ \A key \in (DocumentKeys \cap ThemeSetKeys) \ {K("theme_path")} :
               Has(settings, key) /\ settings[key] = ThemeAlone[key]

C3_Witness ==
    /\ ThemeMerged
    /\ K("transition") \in DocumentKeys \cap ThemeSetKeys
    /\ doc_settings[K("transition")] = Str(<<"cube">>)
    /\ settings[K("transition")] = Str(<<"page">>)

(* C4: the theme merge is a pure overlay: every key the document's own     *)
(* metadata set keeps its key and its value after the merge, unless the    *)
(* theme file defines a docinfo field with the same derived key.           *)
C4_ThemeMergeIsOverlay ==
    ThemeMerged =>
        \A key \in DocumentKeys \ ThemeKeys :
            Has(settings, key) /\ settings[key] = doc_settings[key]

(* C5: when `theme` names a theme with no theme definition file in the     *)
(* working-directory themes directory nor in the built-in one, theme       *)
(* resolution warns, reads no theme file, leaves every setting unchanged   *)
(* and the run goes on, whatever else the document sets.                   *)
NoThemeFile ==
    /\ Has(pre_theme, K("theme"))
    /\ pre_theme[K("theme")].kind = "str"
    /\ LET name == pre_theme[K("theme")].str
       IN /\ Abs(Join(Join(<<"themes">>, name), <<"theme.rst">>)) \notin DOMAIN files
          /\ Join(Join(Join(rstslide_root, <<"themes">>), name), <<"theme.rst">>)
                 \notin DOMAIN files

C5_MissingThemeOnlyWarns ==
    (ThemeResolved /\ NoThemeFile) =>
        /\ traceback # "theme"
        /\ \E i \in DOMAIN warnings : warnings[i][1] = "WARNING: theme "
        /\ reads = <<>>
        /\ pc = "titleslide" => settings = pre_theme

(* C6: under the `inline` policy the produced document holds no external   *)
(* asset reference (no <link>, no <script src>, no script loaded from a    *)
(* path outside the document), and every asset of the resource descriptor  *)
(* is embedded in descriptor order after a marker naming its path.         *)
C6_InlineSelfContained ==
    (pc = "done" /\ resources = "inline") =>
        LET js == settings[K("js_files")].list
            css == settings[K("css_files")].list
        IN /\ output.header.custom_js = <<>>
           /\ output.header.custom_stylesheets = <<>>
           /\ output.footer.dependencies = <<>>
           /\ \A i \in DOMAIN js :
                  output.header.js_embedd[i] = Inlined(js[i], files[Abs(js[i])].data)
           /\ \A i \in DOMAIN css :
                  output.header.css_embedd[i] = Inlined(css[i], files[Abs(css[i])].data)

(* The directives of the header, and the resource descriptor they come from *)
DirectivePaths ==
    [i \in DOMAIN header.custom_js |-> header.custom_js[i].path]
    \o [i \in DOMAIN header.custom_stylesheets |-> header.custom_stylesheets[i].path]
Descriptor == settings[K("js_files")].list \o settings[K("css_files")].list
CreationsAt(dest) == {e \in DOMAIN created : created[e].dest = dest}

C8_SameBasenameOneCopy ==
    (HeaderDone /\ resources = "local") =>
        \A i, j \in DOMAIN Descriptor :
            (i < j /\ Basename(Descriptor[i]) = Basename(Descriptor[j])
                   /\ \A h \in 1..(i - 1) : Basename(Descriptor[h]) # Basename(Descriptor[i]))
            => /\ DirectivePaths[i] = DirectivePaths[j]
               /\ LET dest == Join(resource_dir_abspath, Basename(Descriptor[i]))
                  IN /\ Cardinality(CreationsAt(dest)) = 1
                     /\ \A e \in CreationsAt(dest) :
                            created[e].src \in {Abs(Descriptor[i]), <<"pygmentize">>}

C8_Witness ==
    /\ HeaderDone
    /\ resources = "local"
    /\ \E i, j \in DOMAIN Descriptor :
          /\ i < j
          /\ Descriptor[i] # Descriptor[j]
          /\ Basename(Descriptor[i]) = Basename(Descriptor[j])
          /\ files[Join(resource_dir_abspath, Basename(Descriptor[i]))]
                = files[Abs(Descriptor[i])]

(* C9: under every resource policy the header emits the built-in assets    *)
(* first, in a fixed order (scripts: MathJax, reveal.js; stylesheets:      *)
(* reveal.css, the reveal theme stylesheet, rstslide.css), then every      *)
(* user-declared asset in declared order; none is reordered or dropped.    *)
Reference(file) ==
    IF resources = "local" THEN Join(resource_dir_relpath, Basename(file)) ELSE file

EmittedAs(assets, custom, embedd) ==
    IF resources = "inline"
    THEN /\ custom = <<>>
         /\ Len(embedd) >= Len(assets)
         /\ \A i \in DOMAIN assets : embedd[i].marker = assets[i]
         /\ \A i \in (Len(assets) + 1)..Len(embedd) : embedd[i].marker = None
    ELSE /\ [i \in DOMAIN custom |-> custom[i].path]
              = [i \in DOMAIN assets |-> Reference(assets[i])]
         /\ \A i \in DOMAIN embedd : embedd[i].marker = None

C9_DefaultsFirstInOrder ==
    [][(pc = "header" /\ pc' = "body") =>
        LET js == <<Join(mathjax_root, <<"tex-svg.js">>), Join(reveal_root, <<"reveal.js">>)>>
                      \o settings[K("js_files")].list
            css == <<Join(reveal_root, <<"reveal.css">>),
                     Join(reveal_root, <<"theme", "/">> \o settings[K("reveal_theme")].str
                                                      \o <<".css">>),
                     Join(rstslide_root, <<"css", "/", "rstslide.css">>)>>
                      \o settings[K("css_files")].list
        IN /\ EmittedAs(js, header'.custom_js, header'.js_embedd)
           /\ EmittedAs(css, header'.custom_stylesheets, header'.css_embedd)]_vars

C9_Witness ==
    /\ HeaderDone
    /\ resources = "inline"
    /\ Len(settings[K("js_files")].list) > 2
    /\ Len(settings[K("css_files")].list) > 3
    /\ Len(header.js_embedd) > 2
    /\ Len(header.css_embedd) > 3

(* C10: _generate_titleslide derives is_author = "." when author is        *)
(* non-empty, is_subtitle = "-" when the subtitle is non-empty and         *)
(* is_institution = "-" when institution is non-empty, each "" otherwise;  *)
(* with title "Intro" and every other field empty the default title slide  *)
(* contains <h1>Intro</h1>, an empty <h3> element and no "-" separator.    *)
C10_TitleslideSeparators ==
    TitleslideDone =>
        /\ meta_info[K("is_author")]
              = IF meta_info[K("author")] # <<>> THEN <<".">> ELSE <<>>
        /\ meta_info[K("is_subtitle")]
              = IF meta_info[K("subtitle")] # <<>> THEN <<"-">> ELSE <<>>
        /\ meta_info[K("is_institution")]
              = IF meta_info[K("institution")] # <<>> THEN <<"-">> ELSE <<>>
        /\ (/\ doc_settings[K("firstslide_template")] = Str(<<>>)
            /\ meta_info[K("title")] = <<"Intro">>
            /\ \A k \in {"subtitle", "author", "institution", "email", "date"} :
                   meta_info[K(k)] = <<>>)
           => /\ Contains(titleslide, <<"<h1>", "Intro", "</h1>">>)
              /\ Contains(titleslide, <<"<h3>", "</h3>">>)
              /\ \A i \in DOMAIN titleslide : titleslide[i] # "-"

----------------------------------------------------------------------------
(* The templates of _generate_titleslide, as the document gives them *)

TitleslideAttempted == TitleslideDone \/ (pc = "error" /\ traceback = "titleslide")

GivenTemplate(name) ==
    IF doc_settings[K(name)].kind = "str" THEN doc_settings[K(name)].str ELSE <<>>

Placeholders(template) ==
    {K(template[i + 1]) :
        i \in {j \in 1..(Len(template) - 2) : template[j] = "%(" /\ template[j + 2] = ")s"}}

MissingKeys(name) == Placeholders(GivenTemplate(name)) \ DOMAIN meta_info

FailedOn(keys) ==
    /\ pc = "error"
    /\ traceback = "titleslide"
    /\ error = "KeyError"
    /\ error_key \in keys

(* C11, as stated: once _generate_titleslide has run, a placeholder of    *)
(* either template in effect whose key is absent from the render mapping  *)
(* has made the run fail with a KeyError naming a missing key, whatever   *)
(* write_footer and page_number are.                                      *)
C11_MissingKeyAlwaysFails ==
    TitleslideAttempted =>
        LET missing == MissingKeys("firstslide_template") \cup MissingKeys("footer_template")
        IN missing # {} => FailedOn(missing)

(* C11, amended: a missing key of the title-slide template always fails   *)
(* the run with a KeyError naming it; a missing key of the footer         *)
(* template does so exactly when write_footer is true, which is the only  *)
(* case in which the footer template is rendered; with neither, no        *)
(* KeyError is raised by _generate_titleslide.                            *)
C11_MissingKeyFailsWhenRendered ==
    TitleslideAttempted =>
        LET first == MissingKeys("firstslide_template")
            foot == IF Truthy(doc_settings[K("write_footer")])
                    THEN MissingKeys("footer_template") ELSE {}
        IN /\ first # {} => FailedOn(first)
           /\ first = {} /\ foot # {} => FailedOn(foot)
           /\ first = {} /\ foot = {} => pc # "error"

C11_Witness ==
    /\ MissingKeys("firstslide_template") = {}
    /\ Truthy(doc_settings[K("write_footer")])
    /\ FailedOn(MissingKeys("footer_template"))
    /\ error_key = K("place")

----------------------------------------------------------------------------
TemplateDefault(name) ==
    IF name = "firstslide_template" THEN DefaultFirstslideTemplate ELSE DefaultFooterTemplate

ExpectedTemplate(name) ==
    IF GivenTemplate(name) = <<>> THEN TemplateDefault(name)
    ELSE unescape(GivenTemplate(name))

(* C12: once _generate_titleslide has completed, each of the two          *)
(* templates in effect is the built-in default when the document left its *)
(* setting empty and the HTML-unescaped override otherwise, and a written *)
(* footer is the rendering of that footer template.                       *)
C12_BothTemplatesUnescaped ==
    TitleslideDone =>
        /\ \A name \in {"firstslide_template", "footer_template"} :
              settings[K(name)] = Str(ExpectedTemplate(name))
        /\ titleslide = Render(ExpectedTemplate("firstslide_template"), meta_info).out
        /\ Truthy(doc_settings[K("write_footer")]) =>
              footer_html = <<"<footer id=\"footer\">">>
                  \o Render(ExpectedTemplate("footer_template"), meta_info).out
                  \o <<"<b id=\"slide_number\" style=\"padding: 1em;\"></b></footer>">>

----------------------------------------------------------------------------
(* The highlighting stylesheet of _setup, wherever the policy puts it *)

SetupAttempted == pc # "setup"

IsPygmentsCss(data) == Len(data) > 0 /\ data[1] = "pygments-css:"

PygmentsFile == Join(Join(curr_dir, output_name \o <<"_rstslide">>), <<"pygments.css">>)

EmbeddedStyles ==
    {Tail(settings[K("css_embedd")].list[i]) :
        i \in {j \in DOMAIN settings[K("css_embedd")].list :
                  IsPygmentsCss(settings[K("css_embedd")].list[j])}}

WrittenStyles ==
    IF PygmentsFile \in DOMAIN files /\ IsPygmentsCss(files[PygmentsFile].data)
    THEN {Tail(files[PygmentsFile].data)} ELSE {}

HighlightStyles == EmbeddedStyles \cup WrittenStyles

PygmentsListed ==
    \E i \in DOMAIN settings[K("css_files")].list :
        Basename(settings[K("css_files")].list[i]) = <<"pygments.css">>

(* C13: when the pygmentize command is unavailable, whether or not the    *)
(* pygments library can be imported, _setup under every policy warns,     *)
(* generates no highlighting stylesheet, leaves the working directory as  *)
(* it was and does not abort the run.                                     *)
C13_ToolMissingDegrades ==
    SetupAttempted /\ ~env.pygmentize =>
        /\ traceback # "setup"
        /\ Len(warnings) > 0
        /\ HighlightStyles = {}
        /\ PygmentsFile \notin DOMAIN files
        /\ ~PygmentsListed
        /\ getcwd = cwd

----------------------------------------------------------------------------
(* C14: a run under `online` goes as it would under `central`: _setup     *)
(* completes whenever it completes under `central`, with the same         *)
(* settings; no step copies a file or creates a resource directory; and   *)
(* _generate_header completes with one directive per asset of the         *)
(* resource descriptor, referencing its path as-is.                       *)
C14_OnlineAsCentral ==
    [][resources = "online" =>
          /\ pc = "setup" /\ SetupFor("central").err = "" =>
                /\ pc' = "parse"
                /\ settings' = SetupFor("central").settings
          /\ created' = <<>>
          /\ dirs' = dirs
          /\ resource_dir_abspath' = None
          /\ pc = "header" => pc' = "body" /\ DirectivePaths' = Descriptor']_vars

----------------------------------------------------------------------------
(* The flags as the document sets them, and the features of the output *)

FlagSetTrue(name) ==
    LET fields == DocFields(doctree)
    IN \E i \in DOMAIN fields :
          /\ FieldNameOf(fields[i]) = <<name>>
          /\ getText(FieldBodyOf(fields[i]).childNodes) = <<"True">>
          /\ \A j \in (i + 1)..Len(fields) : FieldNameOf(fields[j]) # <<name>>

RenderedFooter ==
    <<"<footer id=\"footer\">">> \o Render(FooterTemplate(settings), meta_info).out
        \o <<"<b id=\"slide_number\" style=\"padding: 1em;\"></b></footer>">>

PageNumberOnly == <<"<footer><b id=\"slide_number\"></b></footer>">>

(* C15: in the produced output each feature is enabled exactly when the   *)
(* document sets its flag to True, a flag that is absent or False leaving *)
(* it disabled: vertical and horizontal centring, centred titles and the  *)
(* control arrows follow their flags, `footer` set to True puts the       *)
(* rendered footer template in the footer fragment, `page_number` alone   *)
(* gives the slide number only, and neither gives no footer.              *)
C15_FlagsEnableFeatures ==
    pc = "done" =>
        /\ output.footer.center = "true" <=> FlagSetTrue("vertical_center")
        /\ output.header.horizontal_center = "center" <=> FlagSetTrue("horizontal_center")
        /\ output.header.title_center = "center" <=> FlagSetTrue("title_center")
        /\ output.footer.controls = "true" <=> FlagSetTrue("controls")
        /\ output.footer.footer =
              IF FlagSetTrue("footer") THEN RenderedFooter
              ELSE IF FlagSetTrue("page_number") THEN PageNumberOnly
              ELSE <<>>

----------------------------------------------------------------------------
ToolInvoked ==
    \/ HighlightStyles # {}
    \/ \E e \in DOMAIN created : created[e].src = <<"pygmentize">>

DocumentStyle == doc_settings[K("pygments_style")].str

(* C16: the pygments_style of the document governs highlighting: no       *)
(* highlighting stylesheet exists before the document metadata has been   *)
(* extracted, a stylesheet that exists afterwards was generated with the  *)
(* document's style name, and a document whose pygments_style is empty    *)
(* has caused no pygmentize invocation and has no highlighting stylesheet *)
(* embedded, written or listed.                                           *)
C16_DocumentStyleGoverns ==
    /\ pc \in {"setup", "parse"} => ~ToolInvoked
    /\ Parsed /\ pc # "error" =>
          /\ HighlightStyles \subseteq {DocumentStyle}
          /\ DocumentStyle = <<>> => ~ToolInvoked /\ ~PygmentsListed
====
